---- MODULE Spec2Model ----
(***************************************************************************)
(* Model of the Gopher client in gopherTESTING.py: the history manager     *)
(* (ImprovedHistoryManager), the persistence of history and configuration, *)
(* the menu parser, the menu/content classification of a response, and the *)
(* interactive session: connections, requests, menus and content pages.    *)
(***************************************************************************)
EXTENDS Integers, Sequences, FiniteSets, TLC

VARIABLES
    backward_history,   \* ImprovedHistoryManager.backward_history
    forward_history,    \* ImprovedHistoryManager.forward_history
    host,               \* GopherClient.host
    port,               \* GopherClient.port
    history_file,       \* ImprovedHistoryManager.history_file
    files,              \* the files of the working directory, by name
    op,                 \* the call that was made last
    prev_op,            \* the call before it
    arg,                \* its argument
    io,                 \* what the file system did to the write of that call
    ret,                \* how the call ended: None, a value, or an exception
    pre_backward,       \* backward_history when that call started
    pre_forward,        \* forward_history when that call started
    pre_files,          \* files when that call started
    data,               \* the decoded response handed to navigate
    route,              \* the branch navigate took for data
    parsed,             \* the outcome of _parse_gopher_menu(data)
    mode,               \* where the program waits for input, or how it ended
    cur,                \* the navigate call whose prompt is open
    stack,              \* the navigate calls that wait for an inner one
    socket,             \* GopherClient.socket
    trace,              \* what the last step did: calls, connections, output
    origin              \* the navigate call made by run() that is in progress

histVars == <<backward_history, forward_history>>
clientVars == <<host, port>>
callVars == <<op, prev_op, arg, io, ret, pre_backward, pre_forward, pre_files>>
menuVars == <<data, route, parsed>>
navVars == <<mode, cur, stack, socket, trace, origin>>
vars == <<backward_history, forward_history, host, port, history_file, files,
          op, prev_op, arg, io, ret, pre_backward, pre_forward, pre_files,
          data, route, parsed, mode, cur, stack, socket, trace, origin>>

----------------------------------------------------------------------------
(* Bounds *)

\* number of distinct servers whose addresses are pushed
NumHosts == 2
\* no address is pushed once backward_history holds this many entries (record
\* never evicts, and add_page evicts only at exactly max_history entries)
MaxBackward == 6
\* the same limit for a manager that writes a history file, whose content
\* multiplies the states
MaxStoredBackward == 2
\* the same limit in a session that saves its configuration
MaxSavedBackward == 1
\* length of the longest response text
MaxTextLen == 9

----------------------------------------------------------------------------
(* Program constants *)

CONFIG_FILE == "config.json"
BOOKMARKS_FILE == "bookmarks.json"
HISTORY_FILE == "navigation_history.json"

\* ImprovedHistoryManager.__init__(max_history=5, ...)
max_history == 5
\* ImprovedHistoryManager.__init__(..., history_file=None): "" stands for None,
\* both are false in "if self.history_file"
NoFile == ""
\* GopherClient.__init__(host='1436.ninja', port=70, ...)
DefaultHost == "1436.ninja"
DefaultPort == 70

\* ImprovedHistoryManager.__init__ sets backward_history, forward_history,
\* max_history and history_file and nothing else: the object has no
\* attribute "logging"
ManagerAttributes == {"backward_history", "forward_history", "max_history",
                      "history_file"}

----------------------------------------------------------------------------
(* Python values *)

None == [kind |-> "None"]
Value(v) == [kind |-> "value", val |-> v]
Raise(e) == [kind |-> "raise", exc |-> e]

\* the address navigate records: the tuple (server, port)
Address(h, p) == [type |-> "tuple", host |-> h, port |-> p]
Addresses == {Address(h, DefaultPort) : h \in 1..NumHosts}

Last(s) == s[Len(s)]
Front(s) == SubSeq(s, 1, Len(s) - 1)

\* json.dump followed by json.load: a tuple comes back as a list, a list of
\* entries keeps its order
JsonValue(a) == [a EXCEPT !.type = "list"]
JsonList(s) == [i \in 1..Len(s) |-> JsonValue(s[i])]

\* a file: missing, holding a JSON document, or cut short by a failed write
Absent == [state |-> "absent"]
Partial == [state |-> "partial"]
Document(d) == [state |-> "json", value |-> d]

\* what the file system does to the steps of one save: the copy to the backup,
\* the open-and-dump (the open fails and leaves the file alone, or the open
\* truncates the file and the dump fails part way), the copy back from the
\* backup, the removal of the backup
WriteOutcomes == {"ok", "open_fails", "write_fails"}
StepOutcomes == {"ok", "fails"}
Io(b, w, r, m) == [backup |-> b, write |-> w, restore |-> r, remove |-> m]
NoIo == Io("ok", "ok", "ok", "ok")
\* the ways one save can go: a step after a failed one is not reached
IoOutcomes ==
    {Io("fails", "ok", "ok", "ok")}
    \cup {Io("ok", w, r, "ok") : w \in {"open_fails", "write_fails"},
                                 r \in StepOutcomes}
    \cup {Io("ok", "ok", "ok", m) : m \in StepOutcomes}

\* dict.get(key, default)
Get(d, key, default) == IF key \in DOMAIN d THEN d[key] ELSE default

----------------------------------------------------------------------------
(* ImprovedHistoryManager *)

\* record(address): append, clear forward
record(bh, fh, address) ==
    [backward_history |-> Append(bh, address),
     forward_history |-> << >>]

\* add_page(page)
add_page_keeps_forward(bh, fh, page) ==
    IF bh = << >> \/ Last(bh) # page
    THEN [backward_history |->
              Append(IF Len(bh) = max_history THEN Tail(bh) ELSE bh, page),
          forward_history |-> fh]
    ELSE [backward_history |-> bh, forward_history |-> fh]

add_page(bh, fh, page) ==
    IF bh = << >> \/ Last(bh) # page
    THEN [backward_history |->
              Append(IF Len(bh) = max_history THEN Tail(bh) ELSE bh, page),
          forward_history |-> << >>]
    ELSE [backward_history |-> bh, forward_history |-> fh]

\* go_back(): the pop and the append happen before the statement that reads
\* self.logging, which the manager does not have
go_back_drops_top(bh, fh) ==
    IF bh = << >>
    THEN [backward_history |-> bh, forward_history |-> fh, ret |-> None]
    ELSE [backward_history |-> Front(bh),
          forward_history |-> fh,
          ret |-> IF "logging" \notin ManagerAttributes
                  THEN Raise("AttributeError")
                  ELSE IF Front(bh) # << >> THEN Value(Last(Front(bh)))
                       ELSE None]

go_back(bh, fh) ==
    IF bh = << >>
    THEN [backward_history |-> bh, forward_history |-> fh, ret |-> None]
    ELSE LET nb == Front(bh)
             nf == Append(fh, Last(bh))
         IN [backward_history |-> nb,
             forward_history |-> nf,
             ret |-> IF "logging" \notin ManagerAttributes
                     THEN Raise("AttributeError")
                     ELSE IF nb # << >> THEN Value(Last(nb)) ELSE None]

_save_history_not_written(fs, bh, fh, hf, outcome) ==
    [files |-> fs, ret |-> None]

\* _save_history(): open(history_file, 'w') and json.dump, with no backup and
\* no exception handler
_save_history(fs, bh, fh, hf, outcome) ==
    IF hf = NoFile
    THEN [files |-> fs, ret |-> None]
    ELSE CASE outcome.write = "ok" ->
                [files |-> [fs EXCEPT ![hf] =
                               Document([backward |-> JsonList(bh),
                                         forward |-> JsonList(fh)])],
                 ret |-> None]
           [] outcome.write = "open_fails" ->
                [files |-> fs, ret |-> Raise("OSError")]
           [] outcome.write = "write_fails" ->
                [files |-> [fs EXCEPT ![hf] = Partial],
                 ret |-> Raise("OSError")]

\* go_forward()
go_forward_pops_front(bh, fh, fs, hf, outcome) ==
    IF fh = << >>
    THEN [backward_history |-> bh, forward_history |-> fh, files |-> fs,
          ret |-> None]
    ELSE LET next_page == Head(fh)
             nf == Tail(fh)
             nb == Append(bh, next_page)
             saved == _save_history(fs, nb, nf, hf, outcome)
         IN [backward_history |-> nb,
             forward_history |-> nf,
             files |-> saved.files,
             ret |-> IF saved.ret.kind = "raise" THEN saved.ret
                     ELSE Value(next_page)]

go_forward(bh, fh, fs, hf, outcome) ==
    IF fh = << >>
    THEN [backward_history |-> bh, forward_history |-> fh, files |-> fs,
          ret |-> None]
    ELSE LET next_page == Last(fh)
             nf == Front(fh)
             nb == Append(bh, next_page)
             saved == _save_history(fs, nb, nf, hf, outcome)
         IN [backward_history |-> nb,
             forward_history |-> nf,
             files |-> saved.files,
             ret |-> IF saved.ret.kind = "raise" THEN saved.ret
                     ELSE Value(next_page)]

----------------------------------------------------------------------------
(* GopherClient: configuration and files *)

\* _load_from_file(filename): the JSON document of the file, or the default
\* value, the list [], when the file is missing or does not decode
EmptyList == [kind |-> "list"]
Dict(d) == [kind |-> "dict", value |-> d]
_load_from_file(fs, filename) ==
    IF fs[filename] = Absent THEN EmptyList
    ELSE IF fs[filename].state = "json" THEN Dict(fs[filename].value)
    ELSE EmptyList

\* _save_to_file(filename, data): backup, write, restore on a failed write,
\* removal of the backup after a good one. shutil is imported only on the
\* path that makes the backup.
_save_to_file(fs, filename, document, outcome) ==
    LET backup_filename == filename \o ".bak"
        existed == fs[filename] # Absent
        backed_up == IF existed
                     THEN [fs EXCEPT ![backup_filename] = fs[filename]]
                     ELSE fs
        restored(g) ==
            IF g[backup_filename] # Absent /\ existed
                                            /\ outcome.restore = "ok"
            THEN [g EXCEPT ![filename] = g[backup_filename]]
            ELSE g
    IN IF existed /\ outcome.backup = "fails" THEN fs
       ELSE CASE outcome.write = "open_fails" -> restored(backed_up)
              [] outcome.write = "write_fails" ->
                   restored([backed_up EXCEPT ![filename] = Partial])
              [] outcome.write = "ok" ->
                   LET written == [backed_up EXCEPT
                                      ![filename] = Document(document)]
                   IN IF written[backup_filename] # Absent
                         /\ outcome.remove = "ok"
                      THEN [written EXCEPT ![backup_filename] = Absent]
                      ELSE written

\* save_config()
save_config(h, p, bh, fh, fs, outcome) ==
    _save_to_file(fs, CONFIG_FILE,
                  [hostname |-> h, port |-> p,
                   backward_history |-> JsonList(bh),
                   forward_history |-> JsonList(fh)],
                  outcome)

\* load_config(): config.get on the list that stands for an unreadable file
\* raises before anything is assigned
load_config(h, p, bh, fh, fs) ==
    LET config == _load_from_file(fs, CONFIG_FILE)
    IN IF config.kind # "dict"
       THEN [host |-> h, port |-> p, backward_history |-> bh,
             forward_history |-> fh, ret |-> Raise("AttributeError")]
       ELSE [host |-> Get(config.value, "hostname", h),
             port |-> Get(config.value, "port", p),
             backward_history |-> Get(config.value, "backward", bh),
             forward_history |-> Get(config.value, "forward", fh),
             ret |-> None]

----------------------------------------------------------------------------
(* Responses: a text is a sequence of characters *)

TAB == "\t"
LF == "\n"
Alphabet == {"a", TAB, LF}
Texts == UNION {[1..n -> Alphabet] : n \in 0..MaxTextLen}

\* str.split(sep): the pieces between the separators, one more than there
\* are separators
RECURSIVE split(_, _)
split(s, sep) ==
    IF \A i \in 1..Len(s) : s[i] # sep
    THEN <<s>>
    ELSE LET i == CHOOSE k \in 1..Len(s) :
                      s[k] = sep /\ \A j \in 1..(k - 1) : s[j] # sep
         IN <<SubSeq(s, 1, i - 1)>> \o split(SubSeq(s, i + 1, Len(s)), sep)

\* str.count(c)
count(s, c) == Cardinality({i \in 1..Len(s) : s[i] = c})

\* _parse_gopher_menu, one pass of the loop body: parts[0][0] of an empty
\* first field is an IndexError
parse_line(line) ==
    LET parts == split(line, TAB)
    IN IF Len(parts) >= 4
       THEN IF parts[1] = << >>
            THEN Raise("IndexError")
            ELSE Value(<<[entry_type |-> SubSeq(parts[1], 1, 1),
                          display_string |-> SubSeq(parts[1], 2, Len(parts[1])),
                          selector |-> parts[2],
                          server |-> parts[3],
                          port |-> parts[4]]>>)
       ELSE Value(<< >>)

\* _parse_gopher_menu, the loop: entries in the order of the lines, up to the
\* first line that raises
RECURSIVE parse_lines(_, _)
parse_lines(lines, entries) ==
    IF lines = << >> THEN Value(entries)
    ELSE LET r == parse_line(Head(lines))
         IN IF r.kind = "raise" THEN r
            ELSE parse_lines(Tail(lines), entries \o r.val)

_parse_gopher_menu(menu_data) == parse_lines(split(menu_data, LF), << >>)

\* _display_gopher_menu, the test that selects the menu branch:
\* menu_line_count > len(lines) * 0.20. The product is never below the exact
\* fifth (0.20 as a double lies above 1/5 and rounding is monotonic), so the
\* comparison with an integer count is the exact one.
menu_density_at_least(menu_line_count, line_count) ==
    menu_line_count * 5 >= line_count

menu_density(menu_line_count, line_count) == menu_line_count * 5 > line_count

is_gopher_menu(text) ==
    LET lines == split(text, LF)
        menu_line_count ==
            Cardinality({i \in 1..Len(lines) : count(lines[i], TAB) >= 3})
    IN menu_density(menu_line_count, Len(lines))

\* navigate, from the response to the branch that handles it: nothing for an
\* empty response, else the test for a tab, then _display_gopher_menu's test;
\* what is not shown as a menu goes to _handle_user_choice as content
navigate_branch(text) ==
    IF text = << >> THEN "return"
    ELSE IF \E i \in 1..Len(text) : text[i] = TAB
         THEN IF is_gopher_menu(text) THEN "Menu" ELSE "Content"
         ELSE "Content"

----------------------------------------------------------------------------
(* GopherClient: the connection *)

\* server=None and port=None: the empty string and 0 stand for None, all of
\* them are false in "server or self.host", "if not port", "if host"
NoServer == << >>
NoPort == 0

\* self.socket: None, a connected socket, or a socket object after close()
Sock(st, h, p) == [state |-> st, host |-> h, port |-> p]
NoSocket == Sock("none", NoServer, NoPort)

\* socket.close() under "if self.socket"
close(sock) ==
    IF sock.state = "none" THEN sock ELSE [sock EXCEPT !.state = "closed"]

\* what one step did, in the order it did it: the calls of navigate, the calls
\* of _send_request, the connection attempts, the connections opened and
\* closed, the calls of _error_handler, the lines printed
NoTrace == [navs |-> << >>, reqs |-> << >>, conns |-> << >>, wire |-> << >>,
            errs |-> << >>, out |-> << >>]

\* the part of the session a call works on
Session(h, p, bh, fh, sock, st, t) ==
    [host |-> h, port |-> p, backward_history |-> bh, forward_history |-> fh,
     socket |-> sock, stack |-> st, trace |-> t]

\* _error_handler(error_message)
\* self.socket.close(): a connection is closed if the socket holds one
closed(s) ==
    [s EXCEPT !.socket = close(@),
              !.trace.wire = IF s.socket.state = "open"
                             THEN Append(@, "close") ELSE @]

_error_handler(s, where) ==
    [s EXCEPT !.trace.errs = Append(@, where)]

print(s, line) == [s EXCEPT !.trace.out = Append(@, line)]

\* _establish_connection(server, port): the old socket is closed, then
\* create_connection succeeds and replaces it, or raises socket.error, which
\* is reported and leaves self.socket as it was (closed, or None)
_establish_connection(s, server, p, ok) ==
    LET to_host == IF server # NoServer THEN server ELSE s.host
        to_port == IF p # NoPort THEN p ELSE s.port
        attempt == [host |-> to_host, port |-> to_port, ok |-> ok,
                    nav |-> Len(s.trace.navs)]
        tried == [closed(s) EXCEPT !.trace.conns = Append(@, attempt)]
    IN IF ok
       THEN [tried EXCEPT !.socket = Sock("open", to_host, to_port),
                          !.trace.wire = Append(@, "open")]
       ELSE _error_handler(tried, "_establish_connection")

\* connect(host, port)
connect(s, h, p, ok) ==
    _establish_connection([s EXCEPT !.host = IF h # NoServer THEN h ELSE @,
                                    !.port = IF p # NoPort THEN p ELSE @],
                          NoServer, NoPort, ok)

\* _is_connected(): getsockopt on None or on a closed socket raises and gives
\* False; on a connected socket SO_ERROR is 0 unless an error is pending
_is_connected(s, net) == s.socket.state = "open" /\ net.alive

\* _ensure_connection()
_ensure_connection(s, net) ==
    IF _is_connected(s, net) THEN s
    ELSE connect(s, s.host, s.port, net.reconnect)

\* _send_request(selector, server, port): every failure ends in the except
\* clause, which reports it and returns None; the socket is closed on the
\* path of a complete response only
_send_request_silent(s, selector, server, p, net) ==
    LET to_host == IF server = NoServer THEN s.host ELSE server
        to_port == IF p = NoPort THEN s.port ELSE p
        reached == _establish_connection(s, to_host, to_port,
                                         net.request # "connect_fails")
        call(sent, result) == [selector |-> selector, server |-> to_host,
                               port |-> to_port, sent |-> sent,
                               result |-> result]
        logged(t, sent, result) ==
            [t EXCEPT !.trace.reqs = Append(@, call(sent, result)),
                      !.trace.errs = << >>]
    IN IF reached.socket.state # "open"
       THEN [s |-> logged(reached, FALSE, "connect_fails"), ret |-> None]
       ELSE IF net.request = "send_fails"
       THEN [s |-> logged(reached, FALSE, "send_fails"), ret |-> None]
       ELSE IF net.request = "recv_fails"
       THEN [s |-> logged(reached, TRUE, "recv_fails"), ret |-> None]
       ELSE [s |-> closed(logged(reached, TRUE, "ok")),
             ret |-> Value(net.data)]

_send_request(s, selector, server, p, net) ==
    LET to_host == IF server = NoServer THEN s.host ELSE server
        to_port == IF p = NoPort THEN s.port ELSE p
        reached == _establish_connection(s, to_host, to_port,
                                         net.request # "connect_fails")
        call(sent, result) == [selector |-> selector, server |-> to_host,
                               port |-> to_port, sent |-> sent,
                               result |-> result]
        logged(t, sent, result) ==
            [t EXCEPT !.trace.reqs = Append(@, call(sent, result))]
        failed(t, sent, result) ==
            [s |-> _error_handler(logged(t, sent, result), "_send_request"),
             ret |-> None]
    IN IF reached.socket.state # "open"
       THEN failed(reached, FALSE, "connect_fails")
       ELSE IF net.request = "send_fails"
       THEN failed(reached, FALSE, "send_fails")
       ELSE IF net.request = "recv_fails"
       THEN failed(reached, TRUE, "recv_fails")
       ELSE [s |-> closed(logged(reached, TRUE, "ok")),
             ret |-> Value(net.data)]

----------------------------------------------------------------------------
(* GopherClient: navigation *)

CR == "\r"
Whitespace == {" ", TAB, LF, CR}
DigitChars == <<"0", "1", "2", "3", "4", "5", "6", "7", "8", "9">>

\* str.strip()
RECURSIVE strip(_)
strip(x) ==
    IF x # << >> /\ Head(x) \in Whitespace THEN strip(Tail(x))
    ELSE IF x # << >> /\ Last(x) \in Whitespace THEN strip(Front(x))
    ELSE x

\* str.lower(), on the letters of the prompts
lower(x) ==
    [i \in 1..Len(x) |-> CASE x[i] = "B" -> "b"
                           [] x[i] = "Q" -> "q"
                           [] OTHER -> x[i]]

\* str.isdigit()
isdigit(x) ==
    x # << >> /\ \A i \in 1..Len(x) : \E d \in 1..10 : DigitChars[d] = x[i]

\* the number a string of digits denotes
RECURSIVE decimal(_)
decimal(x) ==
    IF x = << >> THEN 0
    ELSE 10 * decimal(Front(x))
         + (CHOOSE d \in 0..9 : DigitChars[d + 1] = Last(x))

\* int(text): surrounding whitespace is ignored, anything but digits is a
\* ValueError (signs and underscores are not in the alphabet of the ports)
int(x) ==
    IF isdigit(strip(x)) THEN Value(decimal(strip(x)))
    ELSE Raise("ValueError")

\* one call of navigate: its arguments, the response it showed and the
\* entries parsed from it
Frame(selector, record_history, server, p, text, entries) ==
    [kind |-> "navigate", selector |-> selector,
     record_history |-> record_history, server |-> server, port |-> p,
     data |-> text, entries |-> entries]

\* a navigate call that waits at line 233 or, through _go_back, at line 414
Waiting(at, frame) == [at |-> at, frame |-> frame]

\* how a step ends: at a prompt of a navigate call, or back in run()
Outcome(s, m, frame) == [s |-> s, mode |-> m, cur |-> frame]

\* _split_address(address): only a string has startswith; a string is taken
\* apart into server, port and selector
_split_address(address) ==
    IF address.type # "str" THEN Raise("AttributeError")
    ELSE Value([server |-> address.host, port |-> address.port,
                selector |-> address.selector])

\* urlparse(previous_page): a tuple or a list has no decode
urlparse(previous_page) ==
    IF previous_page.type # "str" THEN Raise("AttributeError")
    ELSE Value([hostname |-> previous_page.host, port |-> previous_page.port,
                path |-> previous_page.selector])

\* navigate returns to its caller: to run() when no call waits; to line 235
\* of _handle_user_choice, which returns "BACK"; or to _go_back, after which
\* _get_user_choice and _display_gopher_menu return (None, None, None) and
\* the waiting navigate shows its response as content (line 195).
\* after_choice is navigate after _handle_user_choice (lines 196-214).
RECURSIVE returned(_), after_choice(_, _, _)
returned(s) ==
    IF s.stack = << >> THEN Outcome(s, "Idle", None)
    ELSE LET waiting == Last(s.stack)
             rest == [s EXCEPT !.stack = Front(@)]
         IN IF waiting.at = "_go_back"
            THEN Outcome(print(rest, "data"), "ContentPrompt", waiting.frame)
            ELSE after_choice(rest, "BACK", waiting.frame)

after_choice(s, action, frame) ==
    IF action = "BACK" THEN returned(s)
    ELSE IF frame.record_history
    THEN LET r == record(s.backward_history, s.forward_history,
                         Address(frame.server, frame.port))
         IN returned([s EXCEPT !.backward_history = r.backward_history,
                               !.forward_history = r.forward_history])
    ELSE returned(s)

\* the except clause of navigate
navigate_except(s) == returned(_error_handler(s, "navigate"))

\* navigate(selector, record_history, server, port), up to the prompt it
\* opens or to its return
navigate_records_first(s, selector, record_history, server, p, net) ==
    LET called == [s EXCEPT !.trace.navs =
                       Append(@, [selector |-> selector,
                                  record_history |-> record_history,
                                  server |-> server, port |-> p])]
        sent == _send_request(_ensure_connection(called, net), selector,
                              server, p, net)
        pushed == record(sent.s.backward_history, sent.s.forward_history,
                         Address(server, p))
        r == IF sent.ret # None /\ record_history
             THEN [sent EXCEPT !.s.backward_history = pushed.backward_history,
                               !.s.forward_history = pushed.forward_history]
             ELSE sent
    IN IF r.ret = None THEN returned(r.s)
       ELSE LET branch == navigate_branch(r.ret.val)
                entries == _parse_gopher_menu(r.ret.val)
                frame(e) == Frame(selector, record_history, server, p,
                                  r.ret.val, e)
            IN CASE branch = "return" -> returned(r.s)
                 [] branch = "Content" ->
                      Outcome(print(r.s, "data"), "ContentPrompt",
                              frame(<< >>))
                 [] branch = "Menu" ->
                      IF entries.kind = "raise" THEN navigate_except(r.s)
                      ELSE Outcome(print(r.s, "menu"), "MenuPrompt",
                                   frame(entries.val))

navigate(s, selector, record_history, server, p, net) ==
    LET called == [s EXCEPT !.trace.navs =
                       Append(@, [selector |-> selector,
                                  record_history |-> record_history,
                                  server |-> server, port |-> p])]
        r == _send_request(_ensure_connection(called, net), selector, server,
                           p, net)
    IN IF r.ret = None THEN returned(r.s)
       ELSE LET branch == navigate_branch(r.ret.val)
                entries == _parse_gopher_menu(r.ret.val)
                frame(e) == Frame(selector, record_history, server, p,
                                  r.ret.val, e)
            IN CASE branch = "return" -> returned(r.s)
                 [] branch = "Content" ->
                      Outcome(print(r.s, "data"), "ContentPrompt",
                              frame(<< >>))
                 [] branch = "Menu" ->
                      IF entries.kind = "raise" THEN navigate_except(r.s)
                      ELSE Outcome(print(r.s, "menu"), "MenuPrompt",
                                   frame(entries.val))

\* quit_client(): the socket is closed if there is one, exit(0) ends the
\* program through every caller (SystemExit is no Exception)
quit_client_caught(s) == navigate_except(closed(s))

quit_client(s) == Outcome(closed(s), "Terminated", None)

\* the manager's go_back, applied to the session
session_go_back(s) ==
    LET r == go_back(s.backward_history, s.forward_history)
    IN [s |-> [s EXCEPT !.backward_history = r.backward_history,
                        !.forward_history = r.forward_history],
        ret |-> r.ret]

\* _go_back() called at the menu of the navigate call "frame". When it
\* returns, _get_user_choice returns (None, None, None), so does
\* _display_gopher_menu, and navigate shows the response as content.
_go_back(s, frame, net) ==
    LET attempting == print(s, "Attempting to go back...")
        beginning(t) ==
            Outcome(print(print(t, "You're at the beginning of your navigation history."),
                          "data"),
                    "ContentPrompt", frame)
        r == session_go_back(attempting)
        parts == _split_address(r.ret.val)
    IN IF s.backward_history = << >> THEN beginning(attempting)
       ELSE IF r.ret.kind = "raise" THEN navigate_except(r.s)
       ELSE IF r.ret = None THEN beginning(r.s)
       ELSE IF parts.kind = "raise" THEN navigate_except(r.s)
       ELSE navigate([r.s EXCEPT !.stack =
                                    Append(@, Waiting("_go_back", frame))],
                     parts.val.selector, FALSE, parts.val.server,
                     parts.val.port, net)

\* _get_user_choice(entries), one answer to the prompt: the entry of a valid
\* index, back, quit, or a rejected answer
_get_user_choice_one_based(entries, choice) ==
    IF isdigit(choice) /\ 1 <= decimal(choice)
                       /\ decimal(choice) <= Len(entries)
    THEN [kind |-> "entry", entry |-> entries[decimal(choice)]]
    ELSE IF choice = <<"b">> THEN [kind |-> "back"]
    ELSE IF choice = <<"q">> THEN [kind |-> "quit"]
    ELSE [kind |-> "invalid"]

_get_user_choice(entries, choice) ==
    IF isdigit(choice) /\ 0 <= decimal(choice)
                       /\ decimal(choice) < Len(entries)
    THEN [kind |-> "entry", entry |-> entries[decimal(choice) + 1]]
    ELSE IF choice = <<"b">> THEN [kind |-> "back"]
    ELSE IF choice = <<"q">> THEN [kind |-> "quit"]
    ELSE [kind |-> "invalid"]

\* _display_gopher_menu, lines 521-526: the selector, server and port of the
\* selected entry; a port that is not empty is stripped and converted
selected_port_not_stripped(port_field) ==
    IF port_field # << >>
    THEN IF isdigit(port_field) THEN Value(decimal(port_field))
         ELSE Raise("ValueError")
    ELSE Value(NoPort)

selected_port(port_field) ==
    IF port_field # << >> THEN int(port_field) ELSE Value(NoPort)

\* navigate, lines 190-193: the address of the next call
navigate_server(s, new_server) ==
    IF new_server # NoServer THEN new_server ELSE s.host
navigate_port(s, new_port) ==
    IF new_port # NoPort THEN new_port ELSE s.port

\* one answer at the prompt of a menu
menu_choice_needs_selector(s, frame, choice, net) ==
    LET selected == _get_user_choice(frame.entries, choice)
        new_port == selected_port(selected.entry.port)
    IN CASE selected.kind = "entry" ->
              IF new_port.kind = "raise" THEN navigate_except(s)
              ELSE IF selected.entry.selector = << >>
              THEN Outcome(print(s, "data"), "ContentPrompt", frame)
              ELSE navigate(s, selected.entry.selector, FALSE,
                            navigate_server(s, selected.entry.server),
                            navigate_port(s, new_port.val), net)
         [] selected.kind = "back" -> _go_back(s, frame, net)
         [] selected.kind = "quit" -> quit_client(s)
         [] selected.kind = "invalid" ->
              Outcome(print(s, "Invalid choice. Please try again."),
                      "MenuPrompt", frame)

menu_choice(s, frame, choice, net) ==
    LET selected == _get_user_choice(frame.entries, choice)
        new_port == selected_port(selected.entry.port)
    IN CASE selected.kind = "entry" ->
              IF new_port.kind = "raise" THEN navigate_except(s)
              ELSE navigate(s, selected.entry.selector, FALSE,
                            navigate_server(s, selected.entry.server),
                            navigate_port(s, new_port.val), net)
         [] selected.kind = "back" -> _go_back(s, frame, net)
         [] selected.kind = "quit" -> quit_client(s)
         [] selected.kind = "invalid" ->
              Outcome(print(s, "Invalid choice. Please try again."),
                      "MenuPrompt", frame)

\* _handle_user_choice(data), one answer at the prompt of a content page
_handle_user_choice_leaves(s, frame, answer, net) ==
    LET choice == lower(strip(answer))
        r == session_go_back(s)
        parsed_url == urlparse(r.ret.val)
    IN IF choice = <<"b">>
       THEN IF r.ret.kind = "raise" THEN navigate_except(r.s)
            ELSE IF r.ret = None
            THEN Outcome(print(r.s, "You're at the beginning of your navigation history."),
                         "ContentPrompt", frame)
            ELSE IF parsed_url.kind = "raise" THEN navigate_except(r.s)
            ELSE navigate([r.s EXCEPT !.stack =
                              Append(@, Waiting("_handle_user_choice", frame))],
                          parsed_url.val.path, FALSE, parsed_url.val.hostname,
                          parsed_url.val.port, net)
       ELSE IF choice = <<"q">> THEN Outcome(s, "Terminated", None)
       ELSE returned(print(s, "Invalid choice. Please try again."))

_handle_user_choice(s, frame, answer, net) ==
    LET choice == lower(strip(answer))
        r == session_go_back(s)
        parsed_url == urlparse(r.ret.val)
    IN IF choice = <<"b">>
       THEN IF r.ret.kind = "raise" THEN navigate_except(r.s)
            ELSE IF r.ret = None
            THEN Outcome(print(r.s, "You're at the beginning of your navigation history."),
                         "ContentPrompt", frame)
            ELSE IF parsed_url.kind = "raise" THEN navigate_except(r.s)
            ELSE navigate([r.s EXCEPT !.stack =
                              Append(@, Waiting("_handle_user_choice", frame))],
                          parsed_url.val.path, FALSE, parsed_url.val.hostname,
                          parsed_url.val.port, net)
       ELSE IF choice = <<"q">> THEN Outcome(s, "Terminated", None)
       ELSE Outcome(print(s, "Invalid choice. Please try again."),
                    "ContentPrompt", frame)

\* connect_to_server(), with the hostname typed at its prompt
connect_to_server(s, typed, net) ==
    LET hostname == strip(typed)
        set == [s EXCEPT !.host = hostname, !.port = 70]
    IN IF hostname = << >> THEN Outcome(s, "Idle", None)
       ELSE LET connected == _establish_connection(set, NoServer, NoPort,
                                                   net.first)
            IN navigate(connected, << >>, TRUE, connected.host,
                        connected.port, net)

----------------------------------------------------------------------------
(* The state after construction *)

FileNames == {CONFIG_FILE, CONFIG_FILE \o ".bak", BOOKMARKS_FILE,
              BOOKMARKS_FILE \o ".bak", HISTORY_FILE}

NoText == << >>

\* a manager is built with the class default (no history file) or, by
\* GopherClient.__init__, with HISTORY_FILE
Init ==
    /\ backward_history = << >>
    /\ forward_history = << >>
    /\ host = DefaultHost
    /\ port = DefaultPort
    /\ history_file \in {NoFile, HISTORY_FILE}
    /\ files = [f \in FileNames |-> Absent]
    /\ op = "init"
    /\ prev_op = "init"
    /\ arg = None
    /\ io = NoIo
    /\ ret = None
    /\ pre_backward = << >>
    /\ pre_forward = << >>
    /\ pre_files = files
    /\ data = NoText
    /\ route = "unset"
    /\ parsed = [kind |-> "unset"]
    /\ mode = "Idle"
    /\ cur = None
    /\ stack = << >>
    /\ socket = NoSocket
    /\ trace = NoTrace
    /\ origin = None

\* pushes stop at this length of backward_history
PushBound ==
    IF history_file = NoFile THEN MaxBackward ELSE MaxStoredBackward

\* what every call of a manager method leaves behind
Called(name, a, outcome, result) ==
    /\ op' = name
    /\ prev_op' = op
    /\ arg' = a
    /\ io' = outcome
    /\ ret' = result
    /\ pre_backward' = backward_history
    /\ pre_forward' = forward_history
    /\ pre_files' = files

Record(a) ==
    /\ Len(backward_history) < PushBound
    /\ LET r == record(backward_history, forward_history, a)
       IN /\ backward_history' = r.backward_history
          /\ forward_history' = r.forward_history
    /\ Called("record", Value(a), NoIo, None)
    /\ UNCHANGED <<clientVars, history_file, files, menuVars, navVars>>

AddPage(a) ==
    /\ Len(backward_history) < PushBound
    /\ LET r == add_page(backward_history, forward_history, a)
       IN /\ backward_history' = r.backward_history
          /\ forward_history' = r.forward_history
    /\ Called("add_page", Value(a), NoIo, None)
    /\ UNCHANGED <<clientVars, history_file, files, menuVars, navVars>>

GoBack ==
    /\ LET r == go_back(backward_history, forward_history)
       IN /\ backward_history' = r.backward_history
          /\ forward_history' = r.forward_history
          /\ Called("go_back", None, NoIo, r.ret)
    /\ UNCHANGED <<clientVars, history_file, files, menuVars, navVars>>

GoForward(outcome) ==
    /\ LET r == go_forward(backward_history, forward_history, files,
                          history_file, outcome)
       IN /\ backward_history' = r.backward_history
          /\ forward_history' = r.forward_history
          /\ files' = r.files
          /\ Called("go_forward", None, outcome, r.ret)
    /\ UNCHANGED <<clientVars, history_file, menuVars, navVars>>

SaveConfig(outcome) ==
    /\ files' = save_config(host, port, backward_history, forward_history,
                            files, outcome)
    /\ Called("save_config", None, outcome, None)
    /\ UNCHANGED <<histVars, clientVars, history_file, menuVars, navVars>>

LoadConfig ==
    /\ LET r == load_config(host, port, backward_history, forward_history,
                            files)
       IN /\ host' = r.host
          /\ port' = r.port
          /\ backward_history' = r.backward_history
          /\ forward_history' = r.forward_history
          /\ Called("load_config", None, NoIo, r.ret)
    /\ UNCHANGED <<history_file, files, menuVars, navVars>>

\* GopherClient.__init__: a fresh session over the same working directory
NewSession ==
    /\ host' = DefaultHost
    /\ port' = DefaultPort
    /\ backward_history' = << >>
    /\ forward_history' = << >>
    /\ history_file' = HISTORY_FILE
    /\ Called("__init__", None, NoIo, None)
    /\ UNCHANGED <<files, menuVars, navVars>>

Next ==
    \/ \E a \in Addresses : Record(a)
    \/ \E a \in Addresses : AddPage(a)
    \/ GoBack
    \/ \E w \in WriteOutcomes : GoForward(Io("ok", w, "ok", "ok"))

Spec == Init /\ [][Next]_vars

\* the client's session: history is built, the configuration is saved and
\* loaded, the client is started again
InitConfig == Init /\ history_file = HISTORY_FILE

NextConfig ==
    \/ \E a \in Addresses :
          Len(backward_history) < MaxSavedBackward /\ Record(a)
    \/ GoBack
    \/ \E outcome \in IoOutcomes : SaveConfig(outcome)
    \/ LoadConfig
    \/ NewSession

SpecConfig == InitConfig /\ [][NextConfig]_vars

\* one response: the parser and navigate's dispatch are applied to a text
InitMenu ==
    /\ backward_history = << >>
    /\ forward_history = << >>
    /\ host = DefaultHost
    /\ port = DefaultPort
    /\ history_file = HISTORY_FILE
    /\ files = [f \in FileNames |-> Absent]
    /\ op = "init"
    /\ prev_op = "init"
    /\ arg = None
    /\ io = NoIo
    /\ ret = None
    /\ pre_backward = << >>
    /\ pre_forward = << >>
    /\ pre_files = files
    /\ data \in Texts
    /\ route = "unset"
    /\ parsed = [kind |-> "unset"]
    /\ mode = "Idle"
    /\ cur = None
    /\ stack = << >>
    /\ socket = NoSocket
    /\ trace = NoTrace
    /\ origin = None

ParseMenu ==
    /\ parsed.kind = "unset"
    /\ parsed' = _parse_gopher_menu(data)
    /\ UNCHANGED <<histVars, clientVars, history_file, files, callVars, data,
                   route, navVars>>

Dispatch ==
    /\ route = "unset"
    /\ route' = navigate_branch(data)
    /\ UNCHANGED <<histVars, clientVars, history_file, files, callVars, data,
                   parsed, navVars>>

NextMenu == ParseMenu \/ Dispatch

SpecMenu == InitMenu /\ [][NextMenu]_vars

----------------------------------------------------------------------------
(* The interactive session: run(), the servers and the user *)

\* a line of a menu as a server sends it
MenuLine(entry_type, display_string, selector, server, p) ==
    <<entry_type>> \o display_string \o <<TAB>> \o selector \o <<TAB>>
        \o server \o <<TAB>> \o p

\* the responses of the servers: nothing, a page, a page with a tab, a menu
\* that names another server and ends its port with CR followed by a line
\* with empty fields, a menu with a port that is no number followed by an
\* entry without a server, a menu of one entry with an empty selector on
\* another server and port, a menu line without a type
Responses ==
    {<< >>,
     <<"h", "i">>,
     <<"a", TAB, "b">>,
     MenuLine("1", <<"x">>, <<"s">>, <<"B">>, <<"7", "0", CR>>) \o <<LF>>
         \o MenuLine("0", << >>, << >>, << >>, << >>),
     MenuLine("1", << >>, <<"t">>, <<"A">>, <<"x">>) \o <<LF>>
         \o MenuLine("1", << >>, <<"u">>, << >>, <<"7">>),
     MenuLine("1", <<"r">>, << >>, <<"B">>, <<"7">>),
     <<TAB, "s", TAB, "A", TAB, "7", "0">>}

\* what the network does to one call of navigate: the connection made by
\* connect_to_server, the state of an open socket, the reconnection of
\* _ensure_connection, and the request
RequestFailures == {"connect_fails", "send_fails", "recv_fails"}
Net(first, alive, reconnect, request, text) ==
    [first |-> first, alive |-> alive, reconnect |-> reconnect,
     request |-> request, data |-> text]
\* the socket and the reconnection: _ensure_connection reconnects only when
\* the socket is not alive, so a failing reconnection is paired with that
Links == {<<TRUE, TRUE>>, <<FALSE, TRUE>>, <<FALSE, FALSE>>}
\* a request that fails has no response
Nets(firsts) ==
    {Net(f, l[1], l[2], "ok", d) :
        f \in firsts, l \in Links, d \in Responses}
    \cup {Net(f, l[1], l[2], q, << >>) :
        f \in firsts, l \in Links, q \in RequestFailures}

\* what the user types: at "Enter Gopher server hostname", at a menu and at
\* a content page
Hostnames == {<<"A">>, <<"B">>, << >>}
Answers == {<<"0">>, <<"1">>, <<"2">>, <<"b">>, <<" ", "B">>, <<"q">>,
            <<"x">>}

\* config.json as left by hand or by another program: load_config reads the
\* keys 'backward' and 'forward'; JSON holds addresses as lists
StoredAddress(h) == JsonValue(Address(h, DefaultPort))
ConfigFiles ==
    {Absent,
     Document([backward |-> <<StoredAddress(<<"A">>), StoredAddress(<<"B">>)>>,
               forward |-> << >>])}

InitNav ==
    /\ backward_history = << >>
    /\ forward_history = << >>
    /\ host = DefaultHost
    /\ port = DefaultPort
    /\ history_file = HISTORY_FILE
    /\ \E config \in ConfigFiles :
          files = [f \in FileNames |->
                      IF f = CONFIG_FILE THEN config ELSE Absent]
    /\ op = "init"
    /\ prev_op = "init"
    /\ arg = None
    /\ io = NoIo
    /\ ret = None
    /\ pre_backward = << >>
    /\ pre_forward = << >>
    /\ pre_files = files
    /\ data = NoText
    /\ route = "unset"
    /\ parsed = [kind |-> "unset"]
    /\ mode = "Idle"
    /\ cur = None
    /\ stack = << >>
    /\ socket = NoSocket
    /\ trace = NoTrace
    /\ origin = None

\* the session as a step finds it; the trace starts empty
Here == Session(host, port, backward_history, forward_history, socket, stack,
                NoTrace)

\* the session as a step leaves it
Left(o, name, a) ==
    /\ host' = o.s.host
    /\ port' = o.s.port
    /\ backward_history' = o.s.backward_history
    /\ forward_history' = o.s.forward_history
    /\ socket' = o.s.socket
    /\ stack' = o.s.stack
    /\ trace' = o.s.trace
    /\ mode' = o.mode
    /\ cur' = o.cur
    /\ origin' = IF o.s.trace.navs # << >> /\ name = "connect_to_server"
                 THEN [call |-> o.s.trace.navs[1],
                       backward_history |-> backward_history]
                 ELSE origin
    /\ Called(name, a, NoIo, None)
    /\ UNCHANGED <<history_file, files, menuVars>>

\* run(), option 1
ConnectToServer(typed, net) ==
    /\ mode = "Idle"
    /\ Left(connect_to_server(Here, typed, net), "connect_to_server",
            Value(typed))

\* run(), option 6: an exception of load_config leaves run() and ends the
\* program
RunLoadConfig ==
    /\ mode = "Idle"
    /\ LET r == load_config(host, port, backward_history, forward_history,
                            files)
       IN /\ host' = r.host
          /\ port' = r.port
          /\ backward_history' = r.backward_history
          /\ forward_history' = r.forward_history
          /\ mode' = IF r.ret.kind = "raise" THEN "Crashed" ELSE "Idle"
          /\ Called("load_config", None, NoIo, r.ret)
    /\ trace' = NoTrace
    /\ UNCHANGED <<history_file, files, menuVars, cur, stack, socket, origin>>

\* run(), option 7
RunQuit ==
    /\ mode = "Idle"
    /\ Left(quit_client(Here), "quit_client", None)

\* an answer at "Select an option: "
MenuAnswer(choice, net) ==
    /\ mode = "MenuPrompt"
    /\ Left(menu_choice(Here, cur, choice, net), "_get_user_choice",
            Value(choice))

\* an answer at "Press 'b' to go back or 'q' to quit:"
ContentAnswer(choice, net) ==
    /\ mode = "ContentPrompt"
    /\ Left(_handle_user_choice(Here, cur, choice, net),
            "_handle_user_choice", Value(choice))

NextNav ==
    \/ \E typed \in Hostnames, net \in Nets(BOOLEAN) :
          ConnectToServer(typed, net)
    \/ RunLoadConfig
    \/ RunQuit
    \/ \E choice \in Answers, net \in Nets({TRUE}) :
          MenuAnswer(choice, net)
    \/ \E choice \in Answers, net \in Nets({TRUE}) :
          ContentAnswer(choice, net)

SpecNav == InitNav /\ [][NextNav]_vars

\* the session of a user who never loads a configuration
NextBrowse ==
    \/ \E typed \in Hostnames, net \in Nets(BOOLEAN) :
          ConnectToServer(typed, net)
    \/ RunQuit
    \/ \E choice \in Answers, net \in Nets({TRUE}) :
          MenuAnswer(choice, net)
    \/ \E choice \in Answers, net \in Nets({TRUE}) :
          ContentAnswer(choice, net)

SpecBrowse == InitNav /\ [][NextBrowse]_vars

----------------------------------------------------------------------------
(* Properties of the history manager *)

PushOps == {"record", "add_page"}

\* the last call pushed an address other than the top of backward_history
NewPush ==
    /\ op \in PushOps
    /\ (pre_backward = << >> \/ arg.val # Last(pre_backward))

\* C1: backward_history never holds more than max_history entries, and a
\* push of a new address onto max_history entries drops the oldest entry and
\* appends the new one
C1_BackwardBounded ==
    /\ Len(backward_history) <= max_history
    /\ (NewPush /\ Len(pre_backward) = max_history)
          => backward_history = Append(Tail(pre_backward), arg.val)

\* C2: a push of the address on top of backward_history, by record or by
\* add_page, changes neither backward_history nor forward_history
C2_PushOfTopIsNoOp ==
    (op \in PushOps /\ pre_backward # << >> /\ arg.val = Last(pre_backward))
        => /\ backward_history = pre_backward
           /\ forward_history = pre_forward

\* C3: a push of an address other than the top of backward_history leaves
\* forward_history empty, and forward_history grows only by go_back: it is
\* non-empty only after go_back calls that no push of a new address followed
C3_NewPushClearsForward ==
    [][/\ NewPush' => forward_history' = << >>
       /\ Len(forward_history') > Len(forward_history) => op' = "go_back"]_vars

C3_Witness ==
    /\ op = "add_page"
    /\ NewPush
    /\ pre_backward # << >>
    /\ pre_forward # << >>
    /\ forward_history = << >>

\* C4: go_back on an empty backward_history returns None and changes nothing;
\* otherwise it moves the top entry to forward_history and returns the new
\* top, or None when nothing is left; it never raises
C4_GoBackReturns ==
    op = "go_back" =>
        IF pre_backward = << >>
        THEN /\ ret = None
             /\ backward_history = pre_backward
             /\ forward_history = pre_forward
        ELSE /\ backward_history = Front(pre_backward)
             /\ forward_history = Append(pre_forward, Last(pre_backward))
             /\ ret = IF backward_history # << >>
                      THEN Value(Last(backward_history))
                      ELSE None

\* C5: go_back on a non-empty backward_history followed at once by go_forward
\* leaves backward_history and forward_history as they were before go_back
C5_BackForwardRoundTrip ==
    [][(op = "go_back" /\ pre_backward # << >> /\ op' = "go_forward")
          => /\ backward_history' = pre_backward
             /\ forward_history' = pre_forward]_vars

C5_Witness ==
    /\ op = "go_forward"
    /\ prev_op = "go_back"
    /\ Len(pre_forward) >= 2
    /\ backward_history = Append(pre_backward, Last(pre_forward))
    /\ Len(backward_history) >= 2

\* the document that holds the history as it is now
HistoryDocument ==
    Document([backward |-> JsonList(backward_history),
              forward |-> JsonList(forward_history)])

\* C6: go_forward on an empty forward_history returns None and changes
\* nothing in memory or on disk; otherwise it moves the last entry of
\* forward_history to the end of backward_history and, the write going
\* through, the history file holds the resulting pair and the moved address
\* is returned
C6_GoForward ==
    op = "go_forward" =>
        IF pre_forward = << >>
        THEN /\ ret = None
             /\ backward_history = pre_backward
             /\ forward_history = pre_forward
             /\ files = pre_files
        ELSE /\ backward_history = Append(pre_backward, Last(pre_forward))
             /\ forward_history = Front(pre_forward)
             /\ io.write = "ok" =>
                   /\ ret = Value(Last(pre_forward))
                   /\ history_file # NoFile =>
                         files[history_file] = HistoryDocument

C6_Witness ==
    /\ op = "go_forward"
    /\ pre_forward # << >>
    /\ io.write = "ok"
    /\ history_file = HISTORY_FILE
    /\ pre_files[HISTORY_FILE] # HistoryDocument
    /\ files[HISTORY_FILE] = HistoryDocument
    /\ ret = Value(Last(pre_forward))

----------------------------------------------------------------------------
(* Properties of the persisted files *)

\* C7: a configuration saved by save_config and loaded by load_config into a
\* fresh session gives that session the saved backward and forward sequences
C7_SaveLoadRoundTrip ==
    (/\ op = "load_config"
     /\ prev_op = "__init__"
     /\ files[CONFIG_FILE].state = "json")
        => /\ backward_history = files[CONFIG_FILE].value.backward_history
           /\ forward_history = files[CONFIG_FILE].value.forward_history

\* the file the last call wrote, if it wrote one
WrittenFile ==
    CASE op = "go_forward" /\ pre_forward # << >> /\ history_file # NoFile ->
             {history_file}
      [] op = "save_config" -> {CONFIG_FILE}
      [] OTHER -> {}

\* C8: a write of a persisted file that fails leaves the file with the content
\* it had before the write
C8_FailedWriteKeepsFile ==
    \A f \in WrittenFile : io.write # "ok" => files[f] = pre_files[f]

----------------------------------------------------------------------------
(* Properties of the menu parser and of the classification *)

\* positions of the line feeds of data, and its lines by number, from 0
LineFeeds == {i \in 1..Len(data) : data[i] = LF}
LineNumber(i) == Cardinality({j \in LineFeeds : j < i})
LineCount == Cardinality(LineFeeds) + 1
LineText(k) ==
    LET first == CHOOSE i \in 1..(Len(data) + 1) :
                     /\ LineNumber(i) = k
                     /\ (i = 1 \/ data[i - 1] = LF)
        last == CHOOSE i \in 0..Len(data) :
                     /\ i >= first - 1
                     /\ \A j \in first..i : data[j] # LF
                     /\ (i = Len(data) \/ data[i + 1] = LF)
    IN SubSeq(data, first, last)

\* tab-separated fields of a line: field n of a line lies between its n-th
\* and its (n+1)-th tab
Tabs(line) == {i \in 1..Len(line) : line[i] = TAB}
Field(line, n) ==
    LET before == IF n = 0 THEN 0
                  ELSE CHOOSE i \in Tabs(line) :
                           Cardinality({j \in Tabs(line) : j < i}) = n - 1
        after == IF Cardinality(Tabs(line)) = n THEN Len(line) + 1
                 ELSE CHOOSE i \in Tabs(line) :
                          Cardinality({j \in Tabs(line) : j < i}) = n
    IN SubSeq(line, before + 1, after - 1)

\* the first character of a field and what follows it, both empty for an
\* empty field
FirstChar(field) == IF field = << >> THEN << >> ELSE <<field[1]>>
Rest(field) == IF field = << >> THEN << >> ELSE Tail(field)

EntryLines == {k \in 0..(LineCount - 1) : Cardinality(Tabs(LineText(k))) >= 3}

RECURSIVE ExpectedEntries(_)
ExpectedEntries(k) ==
    IF k >= LineCount THEN << >>
    ELSE (IF k \in EntryLines
          THEN LET line == LineText(k)
               IN <<[entry_type |-> FirstChar(Field(line, 0)),
                     display_string |-> Rest(Field(line, 0)),
                     selector |-> Field(line, 1),
                     server |-> Field(line, 2),
                     port |-> Field(line, 3)]>>
          ELSE << >>) \o ExpectedEntries(k + 1)

\* C9: the parser never raises; a line of fewer than 4 fields gives no entry,
\* a line of 4 or more fields gives one entry (type, label, selector, host,
\* port from fields 0 to 3), in the order of the lines
C9_ParserTotal ==
    parsed.kind # "unset" =>
        /\ parsed.kind = "value"
        /\ parsed.val = ExpectedEntries(0)

----------------------------------------------------------------------------
(* Properties of the navigation engine *)

\* the last step called _send_request and its last request failed
RequestFailed ==
    trace.reqs # << >> /\ Last(trace.reqs).result # "ok"

\* C11: when the request of a navigate call fails (at its connection, at the
\* send or at the receive), the failure is reported through _error_handler,
\* navigate returns to the main loop, which waits for the next option, and
\* backward_history and forward_history are as before the step
C11_FailedRequestReturnsToIdle ==
    RequestFailed
        => /\ \E i \in 1..Len(trace.errs) : trace.errs[i] = "_send_request"
           /\ mode = "Idle"
           /\ backward_history = pre_backward
           /\ forward_history = pre_forward

\* a receive fails in the request for a selected menu entry
C11_Witness ==
    /\ op = "_get_user_choice"
    /\ RequestFailed
    /\ Last(trace.reqs).result = "recv_fails"
    /\ mode = "Idle"

\* C12: after a step that made a request, whether the request succeeded or
\* failed at the connection, the send or the receive, the session holds no
\* open connection
C12_ConnectionClosedAfterRequest ==
    trace.reqs # << >> => socket.state # "open"

BeginningOfHistory == "You're at the beginning of your navigation history."
Printed(line) == \E i \in 1..Len(trace.out) : trace.out[i] = line

\* the last step was the answer "b" at a menu
BackAtMenu == op = "_get_user_choice" /\ arg = Value(<<"b">>)

\* C13: after back at a menu with an empty backward_history the message of
\* the beginning of the history is printed, no request is made, and the
\* program waits in the main loop, not at a menu or content prompt
C13_BackAtMenuWithEmptyHistory ==
    (BackAtMenu /\ pre_backward = << >>)
        => /\ Printed(BeginningOfHistory)
           /\ trace.reqs = << >>
           /\ mode = "Idle"

InvalidChoice == "Invalid choice. Please try again."

\* the step is an answer of digits at a menu
IndexAtMenu ==
    mode = "MenuPrompt" /\ op' = "_get_user_choice" /\ isdigit(arg'.val)

\* the step makes exactly one request, for the selector of entry i (from 0)
\* of the menu it was typed at
RequestsEntry(i) ==
    /\ Len(trace'.reqs) = 1
    /\ trace'.reqs[1].selector = cur.entries[i + 1].selector

\* the step rejects the answer and asks again at the same menu
Rejected ==
    /\ trace'.reqs = << >>
    /\ trace'.out = <<InvalidChoice>>
    /\ mode' = mode
    /\ cur' = cur

\* C14: at a menu of k entries an index i with 0 <= i < k causes exactly one
\* request, for the selector of entry i; an index outside the range is
\* rejected and asked again without a request
C14_IndexSelectsEntry ==
    [][IndexAtMenu =>
          IF decimal(arg'.val) < Len(cur.entries)
          THEN RequestsEntry(decimal(arg'.val))
          ELSE Rejected]_vars

\* the port field of an entry is empty or a number between whitespace
PortAccepted(entry) == selected_port(entry.port).kind = "value"

\* C14, amended: the request is made when the port field of entry i is empty
\* or a number; an entry with another port causes no request
C14_IndexSelectsEntryWithPort ==
    [][IndexAtMenu =>
          IF decimal(arg'.val) < Len(cur.entries)
          THEN IF PortAccepted(cur.entries[decimal(arg'.val) + 1])
               THEN RequestsEntry(decimal(arg'.val))
               ELSE trace'.reqs = << >>
          ELSE Rejected]_vars

\* the second entry of a menu was selected and its selector requested
C14_Witness ==
    /\ op = "_get_user_choice"
    /\ arg = Value(<<"1">>)
    /\ Len(trace.reqs) = 1
    /\ trace.reqs[1].selector = <<"u">>

\* the last step was an index typed at a menu, and it ended the navigation
\* that run() started: the first response was fetched and shown, and neither
\* back nor quit was typed
EndedAfterSelection ==
    /\ op = "_get_user_choice"
    /\ isdigit(arg.val)
    /\ mode = "Idle"

\* C15: when a navigate call made with record_history = True, whose response
\* was fetched, ends without back or quit after the user selected a menu
\* entry, backward_history is what it was at that call plus one entry, the
\* (server, port) of that call; the calls for selected entries add nothing
C15_OutermostAddressRecorded ==
    (EndedAfterSelection /\ origin.call.record_history)
        => backward_history =
              Append(origin.backward_history,
                     Address(origin.call.server, origin.call.port))

\* the last step was the answer back at a content page
BackAtContent ==
    op = "_handle_user_choice" /\ lower(strip(arg.val)) = <<"b">>

\* the address under the top of backward_history before the last step
EarlierAddress == pre_backward[Len(pre_backward) - 1]

\* C16: after back, at a menu or at a content page, with an earlier address
\* in backward_history, the step has called navigate for the host and port
\* of that address with record_history = False and requested it, and
\* backward_history has lost its top and gained nothing
C16_BackRequestsEarlierAddress ==
    ((BackAtMenu \/ BackAtContent) /\ Len(pre_backward) >= 2)
        => /\ trace.navs # << >>
           /\ trace.navs[1].server = EarlierAddress.host
           /\ trace.navs[1].port = EarlierAddress.port
           /\ ~trace.navs[1].record_history
           /\ trace.reqs # << >>
           /\ trace.reqs[1].server = EarlierAddress.host
           /\ trace.reqs[1].port = EarlierAddress.port
           /\ backward_history = Front(pre_backward)

\* the step selects an entry of the menu shown, by an index in range, and the
\* port of the entry is accepted
SelectsEntry ==
    /\ IndexAtMenu
    /\ decimal(arg'.val) < Len(cur.entries)
    /\ PortAccepted(cur.entries[decimal(arg'.val) + 1])

SelectedEntry == cur.entries[decimal(arg'.val) + 1]

\* C17: a selected entry is navigated to with its own selector, host and
\* port and record_history = False; a host or port the entry leaves empty is
\* the host or port the menu on display was fetched from
C17_EntryAddressFromMenu ==
    [][SelectsEntry =>
          /\ trace'.navs # << >>
          /\ trace'.navs[1].selector = SelectedEntry.selector
          /\ ~trace'.navs[1].record_history
          /\ trace'.navs[1].server =
                IF SelectedEntry.server # << >> THEN SelectedEntry.server
                ELSE cur.server
          /\ trace'.navs[1].port =
                IF SelectedEntry.port # << >>
                THEN int(SelectedEntry.port).val
                ELSE cur.port]_vars

\* the connections open after the first k openings and closings of a step
OpenAfter(k) ==
    (IF socket.state = "open" THEN 1 ELSE 0)
    + Cardinality({i \in 1..k : trace'.wire[i] = "open"})
    - Cardinality({i \in 1..k : trace'.wire[i] = "close"})

\* C18: every connection attempt made under a navigate call is to the server
\* and port of that call, and at no point of a step is more than one
\* connection open
C18_ConnectionsToTheAddress ==
    [][/\ \A i \in 1..Len(trace'.conns) :
             trace'.conns[i].nav > 0
                => /\ trace'.conns[i].host =
                         trace'.navs[trace'.conns[i].nav].server
                   /\ trace'.conns[i].port =
                         trace'.navs[trace'.conns[i].nav].port
       /\ \A k \in 0..Len(trace'.wire) : OpenAfter(k) <= 1]_vars

\* the step is an answer at a content page that is neither back nor quit
OtherAtContent ==
    /\ mode = "ContentPrompt"
    /\ op' = "_handle_user_choice"
    /\ lower(strip(arg'.val)) \notin {<<"b">>, <<"q">>}

\* C19: at a content page an answer other than back and quit is rejected and
\* the same prompt is open again: no navigate call, no request, no
\* connection, and the history and the session are as they were
C19_ContentPromptRejectsOthers ==
    [][OtherAtContent =>
          /\ trace'.out = <<InvalidChoice>>
          /\ trace'.navs = << >> /\ trace'.reqs = << >>
          /\ trace'.conns = << >> /\ trace'.wire = << >>
          /\ mode' = "ContentPrompt" /\ cur' = cur
          /\ UNCHANGED <<histVars, clientVars, stack, socket>>]_vars

\* a digit was typed at a content page and the page is still shown
C19_Witness ==
    /\ op = "_handle_user_choice"
    /\ arg = Value(<<"0">>)
    /\ mode = "ContentPrompt"
    /\ trace.out = <<InvalidChoice>>

\* the step selects an entry of the menu shown by an index in range
SelectsAnyEntry ==
    IndexAtMenu /\ decimal(arg'.val) < Len(cur.entries)

IsDigit(c) == \E d \in 1..10 : DigitChars[d] = c

\* a port field with a character that is neither a digit nor whitespace
NonNumeric(p) == \E i \in 1..Len(p) : ~IsDigit(p[i]) /\ p[i] \notin Whitespace

\* a port field of digits followed by one whitespace character
TrailingWhitespace(p) ==
    /\ Len(p) >= 2
    /\ Last(p) \in Whitespace
    /\ \A i \in 1..(Len(p) - 1) : IsDigit(p[i])

\* C20: the selection of an entry with a non-numeric port is reported by
\* navigate, makes no navigate call, no connection and no request, leaves the
\* history as it was and ends in the main loop; a port of digits followed by
\* whitespace or CR is requested as the number the digits denote
C20_NonNumericPortAbortsStep ==
    [][SelectsAnyEntry =>
          /\ NonNumeric(SelectedEntry.port)
                => /\ trace'.errs = <<"navigate">>
                   /\ trace'.navs = << >> /\ trace'.reqs = << >>
                   /\ trace'.conns = << >>
                   /\ UNCHANGED histVars
                   /\ mode' = "Idle"
          /\ TrailingWhitespace(SelectedEntry.port)
                => /\ Len(trace'.reqs) = 1
                   /\ trace'.reqs[1].port = decimal(Front(SelectedEntry.port))
                   /\ trace'.reqs[1].selector = SelectedEntry.selector]_vars

\* the entry with the port "x" was selected: reported, nothing requested
C20_Witness ==
    /\ op = "_get_user_choice"
    /\ arg = Value(<<"0">>)
    /\ trace.errs = <<"navigate">>
    /\ trace.reqs = << >>
    /\ mode = "Idle"
    /\ backward_history = pre_backward

\* C21: the selection of an entry with an empty selector makes exactly one
\* request, with the empty selector, to the server and port the entry names;
\* the page shown is the response to that request, not the menu again
C21_EmptySelectorPassedThrough ==
    [][(SelectsEntry /\ SelectedEntry.selector = << >>) =>
          /\ Len(trace'.navs) = 1
          /\ trace'.navs[1].selector = << >>
          /\ Len(trace'.reqs) = 1
          /\ trace'.reqs[1].selector = << >>
          /\ SelectedEntry.server # << >>
                => trace'.reqs[1].server = SelectedEntry.server
          /\ SelectedEntry.port # << >>
                => trace'.reqs[1].port = int(SelectedEntry.port).val]_vars

\* the entry with an empty selector on server B, port 7, was selected and
\* the empty selector was sent there
C21_Witness ==
    /\ op = "_get_user_choice"
    /\ arg = Value(<<"0">>)
    /\ Len(trace.reqs) = 1
    /\ trace.reqs[1].selector = << >>
    /\ trace.reqs[1].server = <<"B">>
    /\ trace.reqs[1].port = 7
    /\ trace.reqs[1].sent

\* the step is the answer quit at a menu or at a content page
QuitAtPrompt ==
    \/ mode = "MenuPrompt" /\ op' = "_get_user_choice"
                           /\ arg' = Value(<<"q">>)
    \/ mode = "ContentPrompt" /\ op' = "_handle_user_choice"
                              /\ lower(strip(arg'.val)) = <<"q">>

\* C22: quit at a menu or at a content page, after any number of selections,
\* ends the program: the step makes no navigate call and no request and
\* reports no error, no connection is open afterwards, and no step follows
C22_QuitTerminates ==
    [][/\ QuitAtPrompt
             => /\ mode' = "Terminated"
                /\ trace'.navs = << >> /\ trace'.reqs = << >>
                /\ trace'.errs = << >> /\ trace'.out = << >>
                /\ socket'.state # "open"
       /\ mode = "Terminated" => UNCHANGED vars]_vars

\* quit was typed at the content page of a selected entry
C22_Witness ==
    /\ mode = "Terminated"
    /\ op = "_handle_user_choice"
    /\ prev_op = "_get_user_choice"
    /\ socket.state = "closed"

----------------------------------------------------------------------------
(* The two stacks as one sequence *)

Reverse(q) == [i \in 1..Len(q) |-> q[Len(q) + 1 - i]]

\* backward_history followed by forward_history from its top down
Timeline(bh, fh) == bh \o Reverse(fh)

\* C24: go_back and go_forward only move addresses between the stacks:
\* backward_history followed by forward_history reversed is the same
\* sequence before and after each call, also after a go_back that raised and
\* a go_forward whose save failed
C24_MovesKeepTimeline ==
    op \in {"go_back", "go_forward"}
        => Timeline(backward_history, forward_history)
              = Timeline(pre_backward, pre_forward)

\* a go_back that moved an address over an address moved before, and raised
C24_Witness ==
    /\ op = "go_back"
    /\ ret = Raise("AttributeError")
    /\ Len(forward_history) >= 2
    /\ backward_history # << >>
    /\ forward_history = Append(pre_forward, Last(pre_backward))

====
